---- MODULE Spec2Model ----
(***************************************************************************)
(* Biometric access-control agent: the standalone service                  *)
(* (src/biometric-service.py) and the bridge                                *)
(* (src/server/biometric-python-bridge.py).                                 *)
(*                                                                         *)
(* Strings whose content the code inspects (biometric identifiers, event   *)
(* keys) are sequences of one-character strings, so that str.strip and     *)
(* the f-string that builds the dedup key are computed, not assumed.       *)
(***************************************************************************)
EXTENDS Integers, Sequences, FiniteSets, TLC

VARIABLES
    prog,               \* "service" (main) or "bridge" (monitor_scans)
    pc,                 \* position of the supervisor loop
    after,              \* what follows the finally block: retry, next, break, raise
    conn,               \* the loop's conn variable: None or a session
    reconnect_delay,
    device_configured,
    elapsed,            \* now() - last_db_refresh, in seconds
    store,              \* rows the store query returns at this moment
    clock,              \* [now |-> local wall clock, off |-> local UTC offset], hours
    allowed_users,
    denied_users,
    member_map,
    seen_events,
    uid,                \* identifier of the event being handled
    pending,            \* the report process_scan is about to send
    unlockCalls,        \* how each conn.unlock call of the current process_scan ended
    reports,            \* reports sent by the current process_scan
    open,               \* sessions connected and not yet disconnect()ed
    recent,             \* the last SeenCap accepted keys, oldest first
    lastEvt,            \* what the event delivered by the last step did
    slept,              \* length of the backoff sleep just completed
    interrupted,        \* a KeyboardInterrupt was delivered in the last step
    teardown,           \* why the finally block just disconnected
    setup,              \* what the setup phase in progress found and called
    scanning,           \* the terminal takes scans (enable_device / disable_device)
    device_users,       \* the terminal's user table, by user_id
    members,            \* the parsed members_json argument of sync_access_groups
    sync,               \* the last synchronizer run: how it ended, its set_user calls
    result,             \* the result object a one-shot bridge command returned
    loaded,             \* how the last get_members_from_db call ended
    posts,              \* how each POST of the current process_scan ended
    accepts,            \* number of events accepted so far
    resumed             \* a session ended with keys in seen_events, none accepted since

vars == <<prog, pc, after, conn, reconnect_delay, device_configured, elapsed,
          store, clock, allowed_users, denied_users, member_map, seen_events,
          uid, pending, unlockCalls, reports, open, recent, lastEvt, slept,
          interrupted, teardown, setup, scanning, device_users, members, sync,
          result, loaded, posts, accepts, resumed>>

----------------------------------------------------------------------------
(* Bounds of the model *)

\* rows drawn for the store in ClassifySpec and ScanSpec
MaxRows == 2

\* capacity of the dedup set; the source uses 500 (biometric-service.py:342,
\* biometric-python-bridge.py:101), scaled so that eviction happens
SeenCap == 2

\* granularity of the passage of time, in seconds
TimeStep == 300

(* Program constants *)

db_refresh_interval == 300

max_reconnect_delay == 60

None == "None"

Min(a, b) == IF a < b THEN a ELSE b

Range(s) == {s[i] : i \in DOMAIN s}

----------------------------------------------------------------------------
(* Strings *)

Blank == " "

RECURSIVE LStrip(_)
LStrip(s) ==
    IF s = <<>> THEN s
    ELSE IF Head(s) = Blank THEN LStrip(Tail(s)) ELSE s

RECURSIVE RStrip(_)
RStrip(s) ==
    IF s = <<>> THEN s
    ELSE IF s[Len(s)] = Blank THEN RStrip(SubSeq(s, 1, Len(s) - 1)) ELSE s

\* str.strip()
Strip(s) == RStrip(LStrip(s))

\* str(ts) inside the f-string: a datetime prints in one fixed-width form
TsStr(t) == <<t>>

\* f"{uid}-{ts}"
EventKey(u, t) == u \o <<"-">> \o TsStr(t)

----------------------------------------------------------------------------
(* Dates of a member row.                                                  *)
(* A date column holds NULL, '' or a text: form "naive" is an ISO date     *)
(* without offset, "offset" one with an explicit UTC offset, "Z" one       *)
(* ending in Z, "garbage" anything fromisoformat rejects.  wall is the     *)
(* written wall-clock time and off the written offset, both in hours.      *)

NullDate == [form |-> "null", wall |-> 0, off |-> 0]

EmptyDate == [form |-> "empty", wall |-> 0, off |-> 0]

GarbageDate == [form |-> "garbage", wall |-> 0, off |-> 0]

NaiveDate(w) == [form |-> "naive", wall |-> w, off |-> 0]

ZDate(w) == [form |-> "Z", wall |-> w, off |-> 0]

OffsetDate(w, o) == [form |-> "offset", wall |-> w, off |-> o]

\* truth value of the column in `if row['start_date']:`
Truthy(d) == d.form \notin {"null", "empty"}

\* .replace('Z', '+00:00')
ReplaceZ(d) == IF d.form = "Z" THEN OffsetDate(d.wall, 0) ELSE d

\* datetime.fromisoformat: a datetime with tzinfo, one without, or ValueError
Fromisoformat(d) ==
    CASE d.form = "naive"  -> [ok |-> TRUE, wall |-> d.wall, tzinfo |-> FALSE, off |-> 0]
      [] d.form = "offset" -> [ok |-> TRUE, wall |-> d.wall, tzinfo |-> TRUE, off |-> d.off]
      [] OTHER             -> [ok |-> FALSE, wall |-> 0, tzinfo |-> FALSE, off |-> 0]

\* x.replace(tzinfo=None) if x.tzinfo else x: the wall-clock fields, offset dropped
DropTz(p) == p.wall

StartOk(d, now) ==
    IF Truthy(d)
    THEN LET p == Fromisoformat(ReplaceZ(d))
         IN  IF p.ok THEN now >= DropTz(p) ELSE TRUE
    ELSE TRUE

EndOk(d, now) ==
    IF Truthy(d)
    THEN LET p == Fromisoformat(ReplaceZ(d))
         IN  IF p.ok THEN now <= DropTz(p) ELSE TRUE
    ELSE TRUE

PaymentOk(p) == p \notin {"pending", "overdue"}

\* allowed = status_ok and start_ok and end_ok and payment_ok
RowAllowed(row, now) ==
    /\ row.status = "active"
    /\ StartOk(row.start_date, now)
    /\ EndOk(row.expiry_date, now)
    /\ PaymentOk(row.payment_status)

\* the member_map entry built from a row
MemberEntry(row) ==
    [id |-> row.id, name |-> row.name, status |-> row.status,
     start_date |-> row.start_date, expiry_date |-> row.expiry_date,
     payment_status |-> row.payment_status]

\* dict assignment member_map[k] = v
DictSet(m, k, v) == [x \in DOMAIN m \cup {k} |-> IF x = k THEN v ELSE m[x]]

EmptyDict == [x \in {} |-> 0]

EmptyLoad == [allowed |-> <<>>, denied |-> <<>>, members |-> EmptyDict]

\* one iteration of `for row in rows`
LoadRow(acc, row, now) ==
    LET biometric_id == Strip(row.biometric_id)
    IN  IF biometric_id = <<>> THEN acc
        ELSE [allowed |-> IF RowAllowed(row, now)
                          THEN Append(acc.allowed, biometric_id) ELSE acc.allowed,
              denied  |-> IF RowAllowed(row, now)
                          THEN acc.denied ELSE Append(acc.denied, biometric_id),
              members |-> DictSet(acc.members, biometric_id, MemberEntry(row))]

RECURSIVE LoadRows(_, _, _)
LoadRows(acc, rows, now) ==
    IF rows = <<>> THEN acc
    ELSE LoadRows(LoadRow(acc, Head(rows), now), Tail(rows), now)

\* a load that classifies the rows whether or not the query succeeded
KeepRowsOnFailure(rows, now, ok) == LoadRows(EmptyLoad, rows, now)

\* get_members_from_db: ok = the store exists and the query succeeds
GetMembersFromDb(rows, now, ok) ==
    IF ok THEN LoadRows(EmptyLoad, rows, now) ELSE EmptyLoad

----------------------------------------------------------------------------
(* process_scan *)

\* an optional value: None, or the value
Absent == <<>>

Present(v) == <<v>>

\* f'User {uid}'
UserName(u) == <<"U", "s", "e", "r", " ">> \o u

\* member_map.get(uid, {})
HasMember(mm, u) == u \in DOMAIN mm

\* member_info.get('id')
MemberId(mm, u) == IF HasMember(mm, u) THEN Present(mm[u].id) ELSE Absent

\* member_info.get('name', f'User {uid}')
MemberName(mm, u) == IF HasMember(mm, u) THEN Present(mm[u].name) ELSE Present(UserName(u))

Report(u, mid, mname, ok, why) ==
    [biometricId |-> u, memberId |-> mid, memberName |-> mname,
     allowed |-> ok, reason |-> why]

NoReport == Report(<<>>, Absent, Absent, FALSE, "none")

\* the reason computed in the denied branch
DeniedReason(mm, u) ==
    IF HasMember(mm, u)
    THEN IF mm[u].status # "active" THEN "inactive"
         ELSE IF mm[u].payment_status \in {"pending", "overdue"}
              THEN IF mm[u].payment_status = "pending"
                   THEN "payment_pending" ELSE "payment_overdue"
              ELSE "expired"
    ELSE "denied"

\* the report that follows conn.unlock: sent in the try when unlock returned,
\* in the except clause when it raised
UnlockReport(mm, u, unlocked) ==
    IF unlocked
    THEN Report(u, MemberId(mm, u), MemberName(mm, u), TRUE, "allowed")
    ELSE Report(u, MemberId(mm, u), MemberName(mm, u), FALSE, "relay_error")

DeniedReport(mm, u) ==
    Report(u, MemberId(mm, u), MemberName(mm, u), FALSE, DeniedReason(mm, u))

UnknownReport(u) == Report(u, Absent, Absent, FALSE, "unknown_user")

\* the branch process_scan takes
ScanBranch(al, de, u) ==
    IF u \in Range(al) THEN "allowed"
    ELSE IF u \in Range(de) THEN "denied" ELSE "unknown"

\* send_attendance_event: what the POST did -> how the call ends.  Every
\* Exception is caught inside, so the call returns whatever the POST did.
PostOutcomes == {"200", "non200", "request_exception", "other_exception"}

\* a send that lets a timeout of the POST through to its caller
RaiseOnTimeout(post) ==
    IF post = "request_exception" THEN "raised" ELSE "returned"

CatchOnlyRequestException(post) ==
    IF post = "other_exception" THEN "raised" ELSE "returned"

SendAttendanceEvent(post) == "returned"

----------------------------------------------------------------------------
(* The supervisor loops: main() of the service, monitor_scans of the bridge *)

Session == "session"

\* how a blocking call ends: it returns, raises an Exception, or a
\* KeyboardInterrupt is delivered while it runs
Outcomes == {"ok", "error", "interrupt"}

StampNames == <<"t1", "t2", "t3", "t4", "t5", "t6">>

\* the scans the terminal reports, in the order in which it takes them: one
\* more distinct key than the dedup set holds
Scans ==
    [i \in 1..(SeenCap + 1) |->
        IF i <= SeenCap THEN [uid |-> <<"7">>, ts |-> StampNames[i]]
        ELSE [uid |-> <<"9">>, ts |-> StampNames[SeenCap]]]

\* what live_capture yields when n distinct scans were reported so far: None
\* on a timeout, an attendance whose user_id is empty, a scan reported
\* before, or the next scan the terminal takes
LiveItems(n) ==
    {[none |-> TRUE, uid |-> <<>>, ts |-> "t1"], [none |-> FALSE, uid |-> <<>>, ts |-> "t1"]}
    \cup {[none |-> FALSE, uid |-> Scans[i].uid, ts |-> Scans[i].ts] :
             i \in 1..Min(n + 1, SeenCap + 1)}

\* a terminal whose scanning is disabled takes no scan: live_capture only
\* times out
Delivered(sc, n) ==
    IF sc THEN LiveItems(n) ELSE {item \in LiveItems(n) : item.none}

\* the doubling without its cap
BackoffUncapped(d) == d * 2

\* reconnect_delay = min(reconnect_delay * 2, 60)
Backoff(d) == Min(d * 2, max_reconnect_delay)

\* (now - last_db_refresh).total_seconds() > db_refresh_interval
RefreshDue(e) == e > db_refresh_interval

\* elapsed only matters against db_refresh_interval: it saturates above it
MaxElapsed == db_refresh_interval + TimeStep

\* time may pass while a call blocks
Later(e) == {e, Min(e + TimeStep, MaxElapsed)}

\* seen_events.add(event_key), then the eviction: list(seen_events)[0] is
\* the first key in the set's iteration order, which is hash order
SeenAdd(seen, key) ==
    LET s == seen \cup {key}
    IN  IF Cardinality(s) > SeenCap THEN {s \ {oldest} : oldest \in s} ELSE {s}

\* the last SeenCap accepted keys, oldest first
Remember(r, key) ==
    LET q == Append(r, key)
    IN  IF Len(q) > SeenCap THEN Tail(q) ELSE q

\* a teardown that leaves the session as it is
NotDisconnected(c, n) == n

\* finally: if conn: conn.disconnect(), whatever disconnect does
Disconnected(c, n) == IF c # None THEN n - 1 ELSE n

\* the record store as the Node.js application leaves it between two loads
RowOf(i, bid, st, sd, ed, pay) ==
    [id |-> <<"m", i>>, name |-> <<"n", i>>, biometric_id |-> bid, status |-> st,
     start_date |-> sd, expiry_date |-> ed, payment_status |-> pay]

Snapshots ==
    { << RowOf(1, <<"7">>, "active", NullDate, NullDate, "paid") >>,
      << RowOf(1, <<"7">>, "active", NullDate, NullDate, "overdue") >> }

LocalClock == [now |-> 10, off |-> 0]

env == <<prog, store, clock>>

classification == <<allowed_users, denied_users, member_map>>

scan == <<uid, pending, unlockCalls, reports, posts>>

device == <<scanning, device_users>>

command == <<members, result>>

NoEvt == [wasSeen |-> FALSE, wasRecent |-> FALSE, accepted |-> FALSE, none |-> TRUE]

NoSetup == [on |-> FALSE, elapsed |-> 0, configured |-> FALSE, calls |-> <<>>]

\* a step that delivers no event
NoDelivery ==
    /\ lastEvt' = NoEvt
    /\ UNCHANGED <<seen_events, recent, accepts, resumed>>

\* no process_scan is in progress
ScanIdle ==
    /\ uid' = <<>>
    /\ pending' = NoReport
    /\ unlockCalls' = <<>>
    /\ reports' = <<>>
    /\ posts' = <<>>

\* the step goes on to position p
Goto(p) ==
    /\ pc' = p
    /\ interrupted' = FALSE
    /\ UNCHANGED after

\* except KeyboardInterrupt: print, break; the finally block follows
Interrupt ==
    /\ pc' = "finally"
    /\ after' = "break"
    /\ interrupted' = TRUE

\* except (ZKNetworkError, ZKErrorResponse, Exception): the handler runs next
Raise == Goto("handler")

\* a call inside `try: ... except: pass`: the bare except also catches a
\* KeyboardInterrupt, and the code after it runs in every case
Swallow(r, p) ==
    /\ pc' = p
    /\ interrupted' = (r = "interrupt")
    /\ UNCHANGED after

\* allowed_users, denied_users, member_map = get_members_from_db()
Load(ok) ==
    LET r == GetMembersFromDb(store, clock.now, ok)
    IN  /\ allowed_users' = r.allowed
        /\ denied_users' = r.denied
        /\ member_map' = r.members
        /\ loaded' = IF ok THEN "ok" ELSE "failed"

\* a setup phase that pushes the groups on every connect
ConfigureAlways(c) == TRUE

\* `if not device_configured:`
NeedsConfigure(c) == ~c

\* `if event_key in seen_events: continue`
Drop(key) ==
    /\ key \in seen_events
    /\ lastEvt' = [wasSeen |-> TRUE, wasRecent |-> key \in Range(recent),
                   accepted |-> FALSE, none |-> FALSE]
    /\ UNCHANGED <<seen_events, recent, accepts, resumed>>

\* a run is followed until MaxAccepts events were accepted: enough for the
\* dedup set to overflow and for an evicted key to come back
MaxAccepts == SeenCap + 2

\* seen_events.add(event_key) and the eviction
Accept(key) ==
    /\ key \notin seen_events
    /\ accepts < MaxAccepts
    /\ seen_events' \in SeenAdd(seen_events, key)
    /\ recent' = Remember(recent, key)
    /\ accepts' = accepts + 1
    /\ resumed' = FALSE
    /\ lastEvt' = [wasSeen |-> FALSE, wasRecent |-> key \in Range(recent),
                   accepted |-> TRUE, none |-> FALSE]

----------------------------------------------------------------------------
(* The access synchronizer: configure_device_access_groups of the service, *)
(* sync_access_groups of the bridge                                        *)

\* a user of the terminal's table, as get_users returns it
DeviceUser(slot, name, password, privilege, card, group) ==
    [uid |-> slot, name |-> name, password |-> password,
     privilege |-> privilege, card |-> card, group_id |-> group]

\* `user.name or ''`, `user.password or ''`
OrEmpty(v) == IF v = <<>> THEN <<>> ELSE v

\* conn.set_user(uid=user.uid, name=user.name or '',
\* privilege=const.USER_DEFAULT, password=user.password or '',
\* group_id=group, user_id=uid, card=0): the record the terminal is given
\* for the slot of `user`
SetUser(user, group) ==
    [uid |-> user.uid, name |-> OrEmpty(user.name),
     password |-> OrEmpty(user.password), privilege |-> "USER_DEFAULT",
     card |-> 0, group_id |-> group]

\* the assignments of the service, in the order of its two loops: the
\* allowed list with group '1', then the denied list with group '0'
GroupWork(allowed, denied) ==
    [i \in 1..Len(allowed) |-> [user_id |-> allowed[i], group |-> "1"]]
    \o [i \in 1..Len(denied) |-> [user_id |-> denied[i], group |-> "0"]]

\* the assignments of the bridge, one per member of members_json:
\* group_id = 1 if allowed else 0
MemberWork(ms) ==
    [i \in 1..Len(ms) |->
        [user_id |-> ms[i].biometricId,
         group |-> IF ms[i].allowed THEN "1" ELSE "0"]]

\* a batch that ends at the first set_user that raises
StopOnError(ok, i, n) == IF ok THEN i + 1 ELSE n + 1

\* `except Exception as e:` around set_user, inside the loop: the loop goes
\* on with the next identifier
AfterSetUser(ok, i, n) == i + 1

\* the loop over the assignments from the i-th on: dict is user_dict, the
\* users get_users returned; fails are the positions whose set_user raises
RECURSIVE PushFrom(_, _, _, _, _)
PushFrom(dict, users, work, fails, i) ==
    IF i > Len(work) THEN [users |-> users, calls |-> <<>>]
    ELSE LET w == work[i]
         IN  IF w.user_id = <<>> \/ w.user_id \notin DOMAIN dict
             THEN PushFrom(dict, users, work, fails, i + 1)
             ELSE LET ok == i \notin fails
                      call == [user_id |-> w.user_id, group |-> w.group, ok |-> ok]
                      now == IF ok
                             THEN [users EXCEPT ![w.user_id] =
                                      SetUser(dict[w.user_id], w.group)]
                             ELSE users
                      rest == PushFrom(dict, now, work, fails,
                                       AfterSetUser(ok, i, Len(work)))
                  IN  [users |-> rest.users, calls |-> <<call>> \o rest.calls]

\* one run over the assignments: nothing is written when get_users raised
PushGroups(users, work, listed, fails) ==
    IF listed THEN PushFrom(users, users, work, fails, 1)
    ELSE [users |-> users, calls |-> <<>>]

\* the set_user calls of a run, each with the terminal's scanning state at
\* the time of the call
Stamp(calls, sc) ==
    [i \in 1..Len(calls) |->
        [user_id |-> calls[i].user_id, group |-> calls[i].group,
         ok |-> calls[i].ok, scanning |-> sc]]

\* conn.disable_device(): the terminal stops taking scans when the call
\* returns; a call that did not return may or may not have reached it
DisableDevice(r, sc) == IF r = "ok" THEN {FALSE} ELSE {sc, FALSE}

\* conn.enable_device()
EnableDevice(r, sc) == IF r = "ok" THEN {TRUE} ELSE {sc, TRUE}

\* no synchronizer run to speak of
NoSync == [run |-> "none", calls |-> <<>>]

\* the run changes the terminal's table and is recorded: it ended as `run`
\* says ("complete", "unlisted" when get_users raised, "interrupted")
Synchronize(work, listed, fails, run) ==
    LET r == PushGroups(device_users, work, listed, fails)
    IN  /\ device_users' = r.users
        /\ sync' = [run |-> run, calls |-> Stamp(r.calls, scanning)]

----------------------------------------------------------------------------
(* main() of the service *)

\* the state before the loop: the initial member list is loaded
Main_Start ==
    /\ prog = "service" /\ pc = "start"
    /\ \E ok \in BOOLEAN :
          /\ Load(ok)
          /\ setup' = [NoSetup EXCEPT !.calls = <<IF ok THEN "db" ELSE "dbfail">>]
    /\ Goto("connect")
    /\ NoDelivery
    /\ UNCHANGED <<env, device, command, sync, conn, reconnect_delay,
                   device_configured, elapsed, scan, open, slept, teardown>>

\* conn = None; conn = connect_device()
Main_Connect ==
    /\ prog = "service" /\ pc = "connect"
    /\ \E r \in Outcomes :
          \/ /\ r = "ok"
             /\ conn' = Session
             /\ open' = open + 1
             /\ Goto("refresh")
             /\ setup' = [on |-> TRUE, elapsed |-> elapsed,
                          configured |-> device_configured, calls |-> <<>>]
          \/ /\ r = "error"
             /\ conn' = None
             /\ Raise
             /\ setup' = NoSetup
             /\ UNCHANGED open
          \/ /\ r = "interrupt"
             /\ conn' = None
             /\ Interrupt
             /\ setup' = NoSetup
             /\ UNCHANGED open
    /\ teardown' = "none"
    /\ NoDelivery
    /\ UNCHANGED <<env, device, command, sync, loaded, reconnect_delay,
                   device_configured, elapsed, classification, scan, slept>>

\* the periodic refresh of the member list
Main_Refresh ==
    /\ prog = "service" /\ pc = "refresh"
    /\ IF RefreshDue(elapsed)
       THEN \E r \in Outcomes :
              \/ /\ r \in {"ok", "error"}
                 /\ Load(r = "ok")
                 /\ device_configured' = FALSE
                 /\ elapsed' = 0
                 /\ setup' = [setup EXCEPT !.calls =
                                Append(@, IF r = "ok" THEN "db" ELSE "dbfail")]
                 /\ Goto("disable")
              \/ /\ r = "interrupt"
                 /\ Interrupt
                 /\ UNCHANGED <<classification, loaded, device_configured,
                                elapsed, setup>>
       ELSE /\ Goto("disable")
            /\ UNCHANGED <<classification, loaded, device_configured, elapsed,
                           setup>>
    /\ NoDelivery
    /\ UNCHANGED <<env, device, command, sync, conn, reconnect_delay, scan,
                   open, slept, teardown>>

\* try: conn.disable_device() except: pass
Main_Disable ==
    /\ prog = "service" /\ pc = "disable"
    /\ \E r \in Outcomes :
          /\ Swallow(r, "configure")
          /\ scanning' \in DisableDevice(r, scanning)
    /\ NoDelivery
    /\ UNCHANGED <<env, device_users, command, sync, loaded, conn,
                   reconnect_delay, device_configured, elapsed, classification,
                   scan, open, slept, teardown, setup>>

\* if not device_configured: configure_device_access_groups(...), which
\* catches every Exception itself
Main_Configure ==
    /\ prog = "service" /\ pc = "configure"
    /\ IF NeedsConfigure(device_configured)
       THEN LET work == GroupWork(allowed_users, denied_users)
            IN  \/ /\ \E listed \in BOOLEAN :
                         \E fails \in SUBSET (IF listed THEN 1..Len(work) ELSE {}) :
                            Synchronize(work, listed, fails,
                                        IF listed THEN "complete" ELSE "unlisted")
                   /\ device_configured' = TRUE
                   /\ setup' = [setup EXCEPT !.calls = Append(@, "cfg")]
                   /\ Goto("enable")
                \/ /\ \E k \in 0..Len(work) :
                         Synchronize(SubSeq(work, 1, k), TRUE, {}, "interrupted")
                   /\ Interrupt
                   /\ UNCHANGED <<device_configured, setup>>
       ELSE /\ Goto("enable")
            /\ UNCHANGED <<device_configured, setup, device_users, sync>>
    /\ NoDelivery
    /\ UNCHANGED <<env, scanning, command, loaded, conn, reconnect_delay, elapsed,
                   classification, scan, open, slept, teardown>>

\* try: conn.enable_device() except: pass; then reconnect_delay = 2
Main_Enable ==
    /\ prog = "service" /\ pc = "enable"
    /\ \E r \in Outcomes :
          /\ Swallow(r, "live")
          /\ scanning' \in EnableDevice(r, scanning)
    /\ reconnect_delay' = 2
    /\ NoDelivery
    /\ UNCHANGED <<env, device_users, command, sync, loaded, conn,
                   device_configured, elapsed, classification, scan, open, slept,
                   teardown, setup>>

\* one step of `for attendance in conn.live_capture():` up to the call of
\* process_scan
Main_Live ==
    /\ prog = "service" /\ pc = "live"
    /\ elapsed' \in Later(elapsed)
    /\ setup' = NoSetup
    /\ sync' = NoSync
    /\ \/ \E item \in Delivered(scanning, accepts) :
             \/ /\ item.none \/ item.uid = <<>>
                /\ Goto("live")
                /\ NoDelivery
                /\ ScanIdle
             \/ /\ ~item.none /\ item.uid # <<>>
                /\ Drop(EventKey(item.uid, item.ts))
                /\ Goto("live")
                /\ ScanIdle
             \/ /\ ~item.none /\ item.uid # <<>>
                /\ Accept(EventKey(item.uid, item.ts))
                /\ uid' = item.uid
                /\ pending' = NoReport
                /\ unlockCalls' = <<>>
                /\ reports' = <<>>
                /\ posts' = <<>>
                /\ Goto("process")
       \/ /\ Raise
          /\ NoDelivery
          /\ ScanIdle
       \/ /\ Interrupt
          /\ NoDelivery
          /\ ScanIdle
       \/ /\ pc' = "finally"
          /\ after' = "next"
          /\ interrupted' = FALSE
          /\ NoDelivery
          /\ ScanIdle
    /\ UNCHANGED <<env, device, command, loaded, conn, reconnect_delay,
                   device_configured, classification, open, slept, teardown>>

\* process_scan up to the first blocking call
PS_Begin ==
    /\ prog = "service" /\ pc = "process"
    /\ LET branch == ScanBranch(allowed_users, denied_users, uid)
       IN  /\ Goto(IF branch = "allowed" THEN "unlock" ELSE "report")
           /\ pending' = CASE branch = "allowed" -> pending
                            [] branch = "denied"  -> DeniedReport(member_map, uid)
                            [] OTHER              -> UnknownReport(uid)
    /\ NoDelivery
    /\ UNCHANGED <<env, device, command, sync, loaded, conn, reconnect_delay,
                   device_configured, elapsed, classification, uid, unlockCalls,
                   reports, posts, open, slept, teardown, setup>>

\* conn.unlock(UNLOCK_SECS) inside try/except Exception
PS_Unlock ==
    /\ prog = "service" /\ pc = "unlock"
    /\ \E r \in Outcomes :
          /\ unlockCalls' = Append(unlockCalls, r)
          /\ \/ /\ r \in {"ok", "error"}
                /\ pending' = UnlockReport(member_map, uid, r = "ok")
                /\ Goto("report")
             \/ /\ r = "interrupt"
                /\ Interrupt
                /\ UNCHANGED pending
    /\ NoDelivery
    /\ UNCHANGED <<env, device, command, sync, loaded, conn, reconnect_delay,
                   device_configured, elapsed, classification, uid, reports, posts,
                   open, slept, teardown, setup>>

\* send_attendance_event(...) with the pending report.  A send that raised
\* inside the try of the allowed branch would land in its except clause.
PS_Report ==
    /\ prog = "service" /\ pc = "report"
    /\ \/ \E post \in PostOutcomes :
             /\ reports' = Append(reports, pending)
             /\ posts' = Append(posts, post)
             /\ IF SendAttendanceEvent(post) = "returned"
                THEN /\ Goto("live")
                     /\ pending' = NoReport
                ELSE IF pending.reason = "allowed"
                     THEN /\ Goto("report")
                          /\ pending' = UnlockReport(member_map, uid, FALSE)
                     ELSE /\ Raise
                          /\ pending' = NoReport
       \/ /\ Interrupt
          /\ UNCHANGED <<pending, reports, posts>>
    /\ NoDelivery
    /\ UNCHANGED <<env, device, command, sync, loaded, conn, reconnect_delay,
                   device_configured, elapsed, classification, uid, unlockCalls,
                   open, slept, teardown, setup>>

\* the except clause: time.sleep(reconnect_delay), then the doubling.  A
\* KeyboardInterrupt during the sleep is raised inside the handler: no
\* clause of the same try catches it, it leaves the function after finally.
Handler ==
    /\ pc = "handler"
    /\ \/ /\ slept' = reconnect_delay
          /\ reconnect_delay' = Backoff(reconnect_delay)
          /\ elapsed' \in Later(elapsed)
          /\ pc' = "finally"
          /\ after' = "retry"
          /\ interrupted' = FALSE
       \/ /\ pc' = "finally"
          /\ after' = "raise"
          /\ interrupted' = TRUE
          /\ UNCHANGED <<slept, reconnect_delay, elapsed>>
    /\ NoDelivery
    /\ UNCHANGED <<env, device, command, sync, loaded, conn, device_configured,
                   classification, scan, open, teardown, setup>>

\* a loop that gives up after a failure
GiveUpAfterFailure(a) == IF a = "next" THEN "connect" ELSE "stopped"

\* a loop that starts every session with an empty dedup set
ForgetsSeen(seen) == {}

\* seen_events = set() is made once, before `while True`: the end of a
\* session leaves it as it is
AfterSession(seen) == seen

\* where the finally block leads: back to `while True` after the handler
\* or the end of the live sequence, out of the loop after break or with
\* an exception that no clause caught
AfterFinally(a) == IF a \in {"retry", "next"} THEN "connect" ELSE "stopped"

\* finally: if conn: try: conn.disconnect() except: pass; then the loop goes
\* on (conn = None), ends (break) or the exception leaves the function
Finally ==
    /\ pc = "finally"
    /\ \E r \in Outcomes :
          /\ conn = None => r = "ok"
          /\ Swallow(r, AfterFinally(after))
    /\ open' = Disconnected(conn, open)
    /\ teardown' = IF conn # None THEN after ELSE "none"
    /\ conn' = IF after \in {"retry", "next"} THEN None ELSE conn
    /\ slept' = 0
    /\ setup' = NoSetup
    /\ sync' = NoSync
    /\ lastEvt' = NoEvt
    /\ seen_events' = AfterSession(seen_events)
    /\ resumed' = (seen_events # {})
    /\ UNCHANGED <<recent, accepts>>
    /\ ScanIdle
    /\ UNCHANGED <<env, device, command, loaded, reconnect_delay,
                   device_configured, elapsed, classification>>

Main_Handler == prog = "service" /\ Handler

Main_Finally == prog = "service" /\ Finally

\* the Node.js application writes the record store; the service reads it
\* only in get_members_from_db, so a write matters only before a load
Store_Update ==
    /\ prog = "service" /\ pc = "refresh" /\ RefreshDue(elapsed)
    /\ store' \in Snapshots \ {store}
    /\ UNCHANGED <<device, command, sync, loaded, accepts, resumed>>
    /\ UNCHANGED <<prog, clock, pc, after, conn, reconnect_delay, device_configured,
                   elapsed, classification, seen_events, recent, lastEvt, scan, open,
                   slept, interrupted, teardown, setup>>

----------------------------------------------------------------------------
(* monitor_scans of the bridge *)

\* the scan line printed as JSON
ScanLine(u) == Report(u, Absent, Absent, FALSE, "scan")

\* conn = None; conn = connect_device(ip, port, comm_key)
Monitor_Connect ==
    /\ prog = "bridge" /\ pc = "connect"
    /\ \E r \in Outcomes :
          \/ /\ r = "ok"
             /\ conn' = Session
             /\ open' = open + 1
             /\ Goto("setup")
          \/ /\ r = "error"
             /\ conn' = None
             /\ Raise
             /\ UNCHANGED open
          \/ /\ r = "interrupt"
             /\ conn' = None
             /\ Interrupt
             /\ UNCHANGED open
    /\ teardown' = "none"
    /\ NoDelivery
    /\ UNCHANGED <<env, device, command, sync, loaded, reconnect_delay,
                   device_configured, elapsed, classification, scan, slept, setup>>

\* try: disable_device(); time.sleep(0.5); enable_device() except: pass;
\* then reconnect_delay = 2
Monitor_Setup ==
    /\ prog = "bridge" /\ pc = "setup"
    /\ \E r \in Outcomes :
          /\ Swallow(r, "live")
          /\ scanning' \in IF r = "ok" THEN {TRUE} ELSE BOOLEAN
    /\ reconnect_delay' = 2
    /\ NoDelivery
    /\ UNCHANGED <<env, device_users, command, sync, loaded, conn,
                   device_configured, elapsed, classification, scan, open, slept,
                   teardown, setup>>

\* one step of `for attendance in conn.live_capture():`
Monitor_Live ==
    /\ prog = "bridge" /\ pc = "live"
    /\ \/ \E item \in Delivered(scanning, accepts) :
             \/ /\ item.none \/ item.uid = <<>>
                /\ Goto("live")
                /\ NoDelivery
                /\ ScanIdle
             \/ /\ ~item.none /\ item.uid # <<>>
                /\ Drop(EventKey(item.uid, item.ts))
                /\ Goto("live")
                /\ ScanIdle
             \/ /\ ~item.none /\ item.uid # <<>>
                /\ Accept(EventKey(item.uid, item.ts))
                /\ uid' = item.uid
                /\ reports' = <<ScanLine(item.uid)>>
                /\ Goto("live")
                /\ UNCHANGED <<pending, unlockCalls, posts>>
       \/ /\ Raise
          /\ NoDelivery
          /\ ScanIdle
       \/ /\ Interrupt
          /\ NoDelivery
          /\ ScanIdle
       \/ /\ pc' = "finally"
          /\ after' = "next"
          /\ interrupted' = FALSE
          /\ NoDelivery
          /\ ScanIdle
    /\ UNCHANGED <<env, device, command, sync, loaded, conn, reconnect_delay,
                   device_configured, elapsed, classification, open, slept,
                   teardown, setup>>

Monitor_Handler == prog = "bridge" /\ Handler

Monitor_Finally == prog = "bridge" /\ Finally

----------------------------------------------------------------------------
(* The one-shot commands of the bridge.  Each is one try block: connect,   *)
(* the command's calls, conn.disconnect(), return of the success object;   *)
(* `except Exception` returns the failure object.                          *)

CallOutcomes == {"ok", "error"}

\* the command returns: conn.disconnect() is the statement that follows the
\* command's calls inside the try block, so it is reached when they all
\* returned; the success object is returned when disconnect returned too
Return(connected, stepsOk, d) ==
    /\ pc' = "returned"
    /\ conn' = IF connected THEN Session ELSE None
    /\ open' = open + (IF connected THEN 1 ELSE 0)
                    - (IF connected /\ stepsOk THEN 1 ELSE 0)
    /\ teardown' = IF connected /\ stepsOk THEN "command" ELSE "none"
    /\ result' = <<[success |-> connected /\ stepsOk /\ d = "ok"]>>
    /\ UNCHANGED <<after, interrupted>>

\* sync_access_groups(ip, port, comm_key, members_json)
Cmd_Sync ==
    /\ prog = "bridge" /\ pc = "sync_access_groups"
    /\ \E c \in CallOutcomes, parsed \in BOOLEAN, listed \in BOOLEAN, d \in CallOutcomes :
          LET connected == c = "ok"
              work == MemberWork(members)
              reached == connected /\ parsed /\ listed
          IN  /\ \E fails \in SUBSET (IF reached THEN 1..Len(work) ELSE {}) :
                    Synchronize(work, reached, fails,
                                IF reached THEN "complete"
                                ELSE IF connected /\ parsed THEN "unlisted"
                                ELSE "none")
              /\ Return(connected, parsed /\ listed, d)
    /\ NoDelivery
    /\ UNCHANGED <<env, scanning, members, loaded, reconnect_delay,
                   device_configured, elapsed, classification, scan, slept, setup>>

\* unlock_door(ip, port, comm_key, seconds)
Cmd_Unlock ==
    /\ prog = "bridge" /\ pc = "unlock_door"
    /\ \E c \in CallOutcomes, u \in CallOutcomes, d \in CallOutcomes :
          LET connected == c = "ok"
          IN  /\ unlockCalls' = IF connected THEN <<u>> ELSE <<>>
              /\ Return(connected, u = "ok", d)
    /\ NoDelivery
    /\ UNCHANGED <<env, device, members, sync, loaded, reconnect_delay,
                   device_configured, elapsed, classification, uid, pending,
                   reports, posts, slept, setup>>

\* test_connection(ip, port, comm_key)
Cmd_Test ==
    /\ prog = "bridge" /\ pc = "test_connection"
    /\ \E c \in CallOutcomes, d \in CallOutcomes : Return(c = "ok", TRUE, d)
    /\ NoDelivery
    /\ UNCHANGED <<env, device, members, sync, loaded, reconnect_delay,
                   device_configured, elapsed, classification, scan, slept, setup>>

----------------------------------------------------------------------------
(* Specifications *)

\* what both programs start from, the store and the clock left open
Fresh ==
    /\ after = "none"
    /\ conn = None
    /\ reconnect_delay = 2
    /\ device_configured = FALSE
    /\ elapsed = 0
    /\ allowed_users = <<>>
    /\ denied_users = <<>>
    /\ member_map = EmptyDict
    /\ seen_events = {}
    /\ uid = <<>>
    /\ pending = NoReport
    /\ unlockCalls = <<>>
    /\ reports = <<>>
    /\ open = 0
    /\ recent = <<>>
    /\ lastEvt = NoEvt
    /\ slept = 0
    /\ interrupted = FALSE
    /\ teardown = "none"
    /\ setup = NoSetup
    /\ sync = NoSync
    /\ result = <<>>
    /\ loaded = "none"
    /\ posts = <<>>
    /\ accepts = 0
    /\ resumed = FALSE

\* the commands of the bridge's command line
Commands == {"monitor_scans", "sync_access_groups", "unlock_door", "test_connection"}

\* the terminal has one enrolled user
Terminal == (<<"7">> :> DeviceUser(1, <<"A">>, <<>>, "USER_DEFAULT", 0, "1"))

Init ==
    /\ prog \in {"service", "bridge"}
    /\ pc \in IF prog = "service" THEN {"start"}
              ELSE {IF c = "monitor_scans" THEN "connect" ELSE c : c \in Commands}
    /\ store \in IF prog = "service" THEN Snapshots ELSE {<<>>}
    /\ clock = LocalClock
    /\ scanning = TRUE
    /\ device_users = Terminal
    /\ members \in IF pc = "sync_access_groups"
                   THEN {<<>>, <<[biometricId |-> <<"7">>, allowed |-> FALSE]>>}
                   ELSE {<<>>}
    /\ Fresh

Next ==
    \/ Main_Start \/ Main_Connect \/ Main_Refresh \/ Main_Disable
    \/ Main_Configure \/ Main_Enable \/ Main_Live
    \/ PS_Begin \/ PS_Unlock \/ PS_Report
    \/ Main_Handler \/ Main_Finally \/ Store_Update
    \/ Monitor_Connect \/ Monitor_Setup \/ Monitor_Live
    \/ Monitor_Handler \/ Monitor_Finally
    \/ Cmd_Sync \/ Cmd_Unlock \/ Cmd_Test

Spec == Init /\ [][Next]_vars

\* time.sleep returns and disconnect returns or raises: the handler and the
\* finally block do not block forever
FairSpec ==
    /\ Spec
    /\ WF_vars(Main_Handler) /\ WF_vars(Main_Finally)
    /\ WF_vars(Monitor_Handler) /\ WF_vars(Monitor_Finally)

----------------------------------------------------------------------------
(* get_members_from_db over the rows the store query can return *)

Statuses == {"active", "inactive"}

Payments == {"paid", "pending", "overdue"}

\* the rows of a store query: columns drawn from the given sets
Columns(ids, starts, ends) ==
    [biometric_id : ids, status : Statuses, start_date : starts,
     expiry_date : ends, payment_status : Payments]

\* the rows f[1..n] as the query returns them, the row ids and names being
\* those of distinct members
Rows(n, f) ==
    [i \in 1..n |-> RowOf(i, f[i].biometric_id, f[i].status, f[i].start_date,
                          f[i].expiry_date, f[i].payment_status)]

\* the biometric identifier is unique among the members as it is stored
UniqueIds(rows) ==
    \A i, j \in DOMAIN rows :
        rows[i].biometric_id = rows[j].biometric_id => i = j

\* the store holds one of the results the query can give with rows of the
\* given columns
StoreHolds(cols) ==
    \E n \in 0..MaxRows : \E f \in [1..n -> cols] :
        UniqueIds(f) /\ store = Rows(n, f)

ClassifyColumns ==
    Columns({<<"7">>, <<"7", " ">>, <<" ">>},
            {NullDate, GarbageDate, NaiveDate(12), ZDate(8)},
            {NullDate, EmptyDate, NaiveDate(8), OffsetDate(12, 5)})

ClassifyInit ==
    /\ prog = "service"
    /\ pc = "start"
    /\ StoreHolds(ClassifyColumns)
    /\ clock \in {[now |-> 10, off |-> 0], [now |-> 10, off |-> 5]}
    /\ scanning = TRUE
    /\ device_users = Terminal
    /\ members = <<>>
    /\ Fresh

ClassifyNext == Main_Start

ClassifySpec == ClassifyInit /\ [][ClassifyNext]_vars

----------------------------------------------------------------------------
(* process_scan over the classifications a load can produce: the service  *)
(* has loaded the store, connected and accepted the scan of uid           *)

ScanColumns ==
    Columns({<<"7">>, <<"7", " ">>, <<"8">>}, {NullDate}, {NullDate, NaiveDate(8)})

ScanInit ==
    /\ prog = "service"
    /\ pc = "process"
    /\ after = "none"
    /\ conn = Session
    /\ open = 1
    /\ reconnect_delay = 2
    /\ device_configured = TRUE
    /\ elapsed = 0
    /\ StoreHolds(ScanColumns)
    /\ clock = LocalClock
    /\ LET r == GetMembersFromDb(store, clock.now, TRUE)
       IN  /\ allowed_users = r.allowed
           /\ denied_users = r.denied
           /\ member_map = r.members
    /\ uid \in {<<"7">>, <<"9">>}
    /\ seen_events = {EventKey(uid, "t1")}
    /\ recent = <<EventKey(uid, "t1")>>
    /\ lastEvt = [wasSeen |-> FALSE, wasRecent |-> FALSE, accepted |-> TRUE,
                  none |-> FALSE]
    /\ pending = NoReport
    /\ unlockCalls = <<>>
    /\ reports = <<>>
    /\ slept = 0
    /\ interrupted = FALSE
    /\ teardown = "none"
    /\ setup = NoSetup
    /\ scanning = TRUE
    /\ device_users = Terminal
    /\ members = <<>>
    /\ sync = NoSync
    /\ result = <<>>
    /\ loaded = "ok"
    /\ posts = <<>>
    /\ accepts = 1
    /\ resumed = FALSE

ScanNext == PS_Begin \/ PS_Unlock \/ PS_Report

ScanSpec == ScanInit /\ [][ScanNext]_vars

----------------------------------------------------------------------------
(* The access synchronizer over the inputs and the terminal tables it can  *)
(* meet: the service is connected and about to configure the device after *)
(* a load, the bridge is about to run sync_access_groups                   *)

SyncColumns == Columns({<<"7">>, <<"8">>, <<"9">>}, {NullDate}, {NullDate})

\* user 7 is enrolled, as a plain user or an administrator, with or without
\* a card; user 8 may be enrolled too; user 9 is not
Terminals ==
    LET sevens == {DeviceUser(1, <<"A">>, <<>>, pr, cd, "1") :
                      pr \in {"USER_DEFAULT", "USER_ADMIN"}, cd \in {0, 5}}
        eight == DeviceUser(2, <<"B">>, <<"p">>, "USER_DEFAULT", 0, "0")
    IN  {(<<"7">> :> u) : u \in sevens}
        \cup {(<<"7">> :> u) @@ (<<"8">> :> eight) : u \in sevens}

\* the members of a members_json argument
MemberItems == [biometricId : {<<"7">>, <<"8">>, <<"9">>, <<>>}, allowed : BOOLEAN]

SyncInit ==
    /\ prog \in {"service", "bridge"}
    /\ pc = IF prog = "service" THEN "configure" ELSE "sync_access_groups"
    /\ after = "none"
    /\ conn = IF prog = "service" THEN Session ELSE None
    /\ open = IF prog = "service" THEN 1 ELSE 0
    /\ reconnect_delay = 2
    /\ device_configured = FALSE
    /\ elapsed = 0
    /\ IF prog = "service" THEN StoreHolds(SyncColumns) ELSE store = <<>>
    /\ clock = LocalClock
    /\ LET r == GetMembersFromDb(store, clock.now, prog = "service")
       IN  /\ allowed_users = r.allowed
           /\ denied_users = r.denied
           /\ member_map = r.members
    /\ loaded = IF prog = "service" THEN "ok" ELSE "none"
    /\ scanning \in IF prog = "service" THEN BOOLEAN ELSE {TRUE}
    /\ device_users \in Terminals
    /\ IF prog = "bridge"
       THEN \E n \in 0..MaxRows : members \in [1..n -> MemberItems]
       ELSE members = <<>>
    /\ seen_events = {}
    /\ recent = <<>>
    /\ accepts = 0
    /\ resumed = FALSE
    /\ lastEvt = NoEvt
    /\ uid = <<>>
    /\ pending = NoReport
    /\ unlockCalls = <<>>
    /\ reports = <<>>
    /\ posts = <<>>
    /\ slept = 0
    /\ interrupted = FALSE
    /\ teardown = "none"
    /\ setup = [on |-> prog = "service", elapsed |-> 0, configured |-> FALSE,
                calls |-> <<>>]
    /\ sync = NoSync
    /\ result = <<>>

SyncNext == Main_Configure \/ Cmd_Sync

SyncSpec == SyncInit /\ [][SyncNext]_vars

----------------------------------------------------------------------------
(* Properties *)

Monitoring == {"live", "process", "unlock", "report"}

Delays == {2, 4, 8, 16, 32, 60}

\* C1: an event whose key is among the SeenCap most recently accepted keys
\* is dropped when it is delivered again: it is not accepted a second time,
\* so no process_scan call and no scan line follows.
C1_RecentKeyDropped == lastEvt.wasRecent => ~lastEvt.accepted

\* C2: reconnect_delay starts at 2 and is always one of 2, 4, 8, 16, 32, 60;
\* an iteration that failed and goes on has slept, the sleep lasted the
\* delay of that moment and the delay after it is min(2 * delay, 60); while
\* live events are consumed the delay is 2.
C2_Backoff ==
    /\ reconnect_delay \in Delays
    /\ pc = "start" => reconnect_delay = 2
    /\ (pc = "finally" /\ after = "retry") => slept # 0
    /\ slept # 0 =>
          /\ slept \in Delays
          /\ reconnect_delay = IF 2 * slept < 60 THEN 2 * slept ELSE 60
    /\ pc \in Monitoring => reconnect_delay = 2

\* a sleep of 32 s was followed by the capped delay of 60 s
C2_Witness == slept = 32 /\ reconnect_delay = 60

\* C3: a KeyboardInterrupt delivered in any state of the loop stops it: the
\* step it arrives in leads to the finally block on the way out of the loop,
\* or to the stopped loop, never to a further setup step, to monitoring or
\* to another connect attempt.
C3_InterruptStops ==
    interrupted =>
        \/ pc = "finally" /\ after \in {"break", "raise"}
        \/ pc = "stopped"

\* C4: at most one session is open, and none is open when the loop is about
\* to connect or has exited: disconnect() was attempted on every session.
C4_SessionClosed ==
    /\ open \in {0, 1}
    /\ pc \in {"start", "connect", "stopped"} => open = 0
    /\ conn = None => open = 0

\* a session that failed was disconnected after the backoff sleep and the
\* loop is about to connect again
C4_Witness == pc = "connect" /\ teardown = "retry" /\ open = 0

\* C5: when the first live event of a session is about to be consumed, the
\* setup phase has called get_members_from_db once and then
\* configure_device_access_groups once if it was entered more than
\* db_refresh_interval after the last refresh, and neither if it was entered
\* earlier with the device configured.
C5_RefreshOnce ==
    (prog = "service" /\ pc = "live" /\ setup.on) =>
        /\ setup.elapsed > db_refresh_interval =>
              /\ Len(setup.calls) = 2
              /\ setup.calls[1] \in {"db", "dbfail"}
              /\ setup.calls[2] = "cfg"
        /\ (setup.elapsed < db_refresh_interval /\ setup.configured) =>
              setup.calls = <<>>

\* a session whose setup found the interval elapsed on a configured device
\* is about to consume its first event
C5_Witness ==
    /\ prog = "service" /\ pc = "live" /\ setup.on
    /\ setup.elapsed > db_refresh_interval /\ setup.configured

\* C6: for an identifier of the allowed list, process_scan calls conn.unlock
\* once and sends one report, {allowed: true, reason: "allowed"} if unlock
\* returned and {allowed: false, reason: "relay_error"} if it raised; never
\* both.
C6_AllowedScan ==
    (prog = "service" /\ uid \in Range(allowed_users)) =>
        /\ Len(unlockCalls) <= 1
        /\ Len(reports) <= 1
        /\ pc = "report" => Len(unlockCalls) = 1
        /\ (pc = "live" \/ reports # <<>>) =>
              /\ Len(unlockCalls) = 1
              /\ Len(reports) = 1
              /\ unlockCalls[1] \in {"ok", "error"}
              /\ reports[1].biometricId = uid
              /\ reports[1].allowed = (unlockCalls[1] = "ok")
              /\ reports[1].reason =
                    IF unlockCalls[1] = "ok" THEN "allowed" ELSE "relay_error"

\* process_scan returned after an unlock that raised
C6_Witness ==
    /\ pc = "live" /\ uid \in Range(allowed_users)
    /\ unlockCalls = <<"error">>
    /\ Len(reports) = 1 /\ reports[1].reason = "relay_error"

\* C7: conn.unlock is called only for an identifier of the allowed list,
\* never for one of the denied list or of neither; for one of neither the
\* report is {allowed: false, reason: "unknown_user"} without member id and
\* name.
C7_UnlockOnlyAllowed ==
    prog = "service" =>
        /\ unlockCalls # <<>> =>
              /\ uid \in Range(allowed_users)
              /\ uid \notin Range(denied_users)
        /\ (pc = "live" /\ uid # <<>>
              /\ uid \notin Range(allowed_users) \cup Range(denied_users)) =>
              reports = << [biometricId |-> uid, memberId |-> Absent,
                            memberName |-> Absent, allowed |-> FALSE,
                            reason |-> "unknown_user"] >>

\* the reason the priority rule gives for a member record
C8_Reason(m) ==
    IF m.status # "active" THEN "inactive"
    ELSE IF m.payment_status = "pending" THEN "payment_pending"
    ELSE IF m.payment_status = "overdue" THEN "payment_overdue"
    ELSE "expired"

\* C8: the report of a scan of a denied identifier carries the reason the
\* priority rule gives for its member record: inactive, else
\* payment_pending or payment_overdue, else expired.
C8_DeniedReason ==
    (prog = "service" /\ pc = "live" /\ uid \in Range(denied_users)) =>
        /\ Len(reports) = 1
        /\ uid \in DOMAIN member_map
        /\ reports[1].reason = C8_Reason(member_map[uid])

\* a date column that is absent or that fromisoformat cannot parse
C9_NoDate(d) == d.form \in {"null", "empty", "garbage"}

\* the instant a date column denotes, in hours UTC: a date without offset
\* is local time
C9_Instant(d) == IF d.form = "naive" THEN d.wall - clock.off ELSE d.wall - d.off

\* the instant of datetime.now(), in hours UTC
C9_Now == clock.now - clock.off

\* the decision the claim states for a row
C9_Decision(row) ==
    /\ row.status = "active"
    /\ C9_NoDate(row.start_date) \/ C9_Now >= C9_Instant(row.start_date)
    /\ C9_NoDate(row.expiry_date) \/ C9_Now <= C9_Instant(row.expiry_date)
    /\ row.payment_status \notin {"pending", "overdue"}

\* the trimmed identifiers, in row order, of the rows with an identifier
\* and the stated decision
RECURSIVE C9_Pick(_, _)
C9_Pick(rows, want) ==
    IF rows = <<>> THEN <<>>
    ELSE LET row == Head(rows)
             rest == C9_Pick(Tail(rows), want)
         IN  IF Strip(row.biometric_id) # <<>> /\ C9_Decision(row) = want
             THEN <<Strip(row.biometric_id)>> \o rest
             ELSE rest

\* C9: after a load that succeeded, the allowed list holds the identifier of
\* exactly the rows that are active, inside their date window (an absent or
\* unparsable date not constraining) and neither pending nor overdue; the
\* denied list holds the identifier of every other row.
C9_RowVerdict ==
    (pc = "connect" /\ setup.calls = <<"db">>) =>
        /\ allowed_users = C9_Pick(store, TRUE)
        /\ denied_users = C9_Pick(store, FALSE)

\* C10: after a load, the allowed and the denied list are disjoint, their
\* union is the key set of member_map, and the verdict of every identifier
\* is the one its member_map record gives.
C10_Partition ==
    (pc = "connect" /\ setup.calls = <<"db">>) =>
        /\ Range(allowed_users) \cap Range(denied_users) = {}
        /\ Range(allowed_users) \cup Range(denied_users) = DOMAIN member_map
        /\ \A b \in DOMAIN member_map :
              (b \in Range(allowed_users)) = RowAllowed(member_map[b], clock.now)

\* C11: every set_user call of the access synchronizer is issued while the
\* terminal's scanning is disabled, after a disable_device that succeeded
\* and before the following enable_device.
C11_WritesWhileDisabled == \A i \in DOMAIN sync.calls : ~sync.calls[i].scanning

\* C12: the loop ends only by an interrupt, and a failure that reaches the
\* except clause is followed by teardown and another connect attempt unless
\* an interrupt ends the loop first.
C12_FailureRecovers ==
    /\ [](pc = "stopped" => after \in {"break", "raise"})
    /\ (pc = "handler") ~> (pc = "connect" \/ pc = "stopped")

\* a connect that failed was followed by the backoff and the loop is about
\* to connect again
C12_Witness == pc = "connect" /\ conn = None /\ reconnect_delay = 4

\* the identifiers the synchronizer was given
C13_Inputs ==
    IF prog = "service" THEN Range(allowed_users) \cup Range(denied_users)
    ELSE {members[i].biometricId : i \in DOMAIN members}

\* C13: a run of the access synchronizer changes only the access-group
\* field of a device user: terminal id, name, password, card and privilege
\* are after the run what they were before, and the users whose identifier
\* is not in the input are not written at all.
C13_OnlyGroupWritten ==
    [][ \A u \in DOMAIN device_users :
          /\ u \in DOMAIN device_users'
          /\ device_users'[u] =
                [device_users[u] EXCEPT !.group_id = device_users'[u].group_id]
          /\ u \notin C13_Inputs => device_users'[u] = device_users[u] ]_vars

\* the assignments of the input whose identifier is enrolled on the terminal
C14_Matched ==
    LET work == IF prog = "service" THEN GroupWork(allowed_users, denied_users)
                ELSE MemberWork(members)
    IN  SelectSeq(work, LAMBDA w : w.user_id \in DOMAIN device_users)

\* C14: in a run that could enumerate the device users, a set_user that
\* raises does not stop the batch: the calls made are, in order, one per
\* identifier of the input that is enrolled on the terminal, with group 1
\* for an allowed and group 0 for a denied one, and none for an identifier
\* that is not enrolled.
C14_BatchContinues ==
    sync.run = "complete" =>
        /\ Len(sync.calls) = Len(C14_Matched)
        /\ \A i \in DOMAIN sync.calls :
              /\ sync.calls[i].user_id = C14_Matched[i].user_id
              /\ sync.calls[i].group = C14_Matched[i].group

\* a run in which a set_user raised and a later one was still made
C14_Witness ==
    /\ sync.run = "complete"
    /\ \E i, j \in DOMAIN sync.calls : i < j /\ ~sync.calls[i].ok /\ sync.calls[j].ok

\* C15: a get_members_from_db call that fails returns empty collections
\* and the supervisor goes on: after a refresh that failed the refresh timer
\* restarts and the setup phase continues, every scan handled under the
\* empty classification is reported as unknown_user without an unlock, and
\* a setup phase entered after the interval has elapsed again reads the
\* store again.
C15_SoftStoreFailure ==
    prog = "service" =>
        /\ loaded = "failed" =>
              /\ allowed_users = <<>> /\ denied_users = <<>>
              /\ member_map = EmptyDict
              /\ pc # "unlock"
        /\ (setup.on /\ setup.calls # <<>> /\ setup.calls[1] = "dbfail") =>
              /\ pc \in {"disable", "configure", "enable", "live", "finally"}
              /\ pc = "finally" => after = "break"
              /\ pc # "live" => elapsed = 0
        /\ (loaded = "failed" /\ pc = "live" /\ uid # <<>>) =>
              /\ unlockCalls = <<>>
              /\ reports = << [biometricId |-> uid, memberId |-> <<>>,
                               memberName |-> <<>>, allowed |-> FALSE,
                               reason |-> "unknown_user"] >>
        /\ (pc = "live" /\ setup.on /\ setup.elapsed > db_refresh_interval) =>
              setup.calls # <<>> /\ setup.calls[1] \in {"db", "dbfail"}

\* a scan was reported as unknown after a periodic refresh failed: the
\* terminal still carries the group pushed after an earlier load
C15_Witness ==
    /\ prog = "service" /\ loaded = "failed" /\ pc = "live"
    /\ reports # <<>> /\ device_users[<<"7">>].group_id = "0"

\* C16: every fresh scan the service handles results in exactly one report
\* attempt, whichever branch applies; whatever the POST did, the report is
\* not sent again, the unlock that was made stays made and monitoring goes
\* on with the next live event.
C16_OneReport ==
    prog = "service" =>
        /\ Len(reports) <= 1
        /\ Len(posts) = Len(reports)
        /\ (pc = "live" /\ uid # <<>>) =>
              /\ Len(reports) = 1
              /\ reports[1].biometricId = uid
              /\ reports[1].reason \in
                    {"allowed", "relay_error", "denied", "inactive",
                     "payment_pending", "payment_overdue", "expired",
                     "unknown_user"}
        /\ posts # <<>> =>
              /\ pc = "live"
              /\ reports[1].reason \in {"allowed", "relay_error"}
                    => Len(unlockCalls) = 1
              /\ reports[1].reason = "allowed" => unlockCalls = <<"ok">>

\* the POST of the report timed out after an unlock, and the loop is back
\* at the live sequence
C16_Witness ==
    /\ prog = "service" /\ pc = "live"
    /\ posts = <<"request_exception">> /\ unlockCalls = <<"ok">>

\* C17: the loop never goes from the teardown of one iteration to the next
\* connect attempt without a backoff sleep in that iteration, whether
\* live_capture raised or the sequence ended.
C17_SleepBeforeReconnect ==
    [][(pc = "finally" /\ pc' = "connect") => slept # 0]_vars

\* C18: teardown, the backoff sleep, reconnection and the setup phase leave
\* the dedup set unchanged (only the live loop changes it), and while no
\* key was evicted (at most SeenCap keys accepted in all) an event whose key
\* was accepted before, in this or an earlier session, is dropped: no
\* process_scan, so no relay unlock and no attendance report, follows it.
C18_SeenSurvivesReconnect ==
    /\ [][pc # "live" => seen_events' = seen_events]_vars
    /\ [](accepts <= SeenCap =>
            /\ lastEvt.wasRecent => (lastEvt.wasSeen /\ ~lastEvt.accepted)
            /\ lastEvt.wasSeen =>
                  (pc = "live" /\ unlockCalls = <<>> /\ reports = <<>> /\ posts = <<>>))

\* a key accepted in an earlier session is replayed and dropped
C18_Witness ==
    /\ pc = "live" /\ resumed /\ accepts <= SeenCap
    /\ lastEvt.wasSeen /\ lastEvt.wasRecent

\* C19: after any sequence of events and reconnects the dedup set holds at
\* most SeenCap keys, and they are the keys accepted last: an insertion
\* that takes the set over the capacity removes the key inserted earliest.
C19_OldestEvicted ==
    /\ Cardinality(seen_events) <= SeenCap
    /\ seen_events = Range(recent)

\* C20: a one-shot bridge command that connected has attempted disconnect()
\* by the time it returns, also when a call after the connect failed, and
\* it returns a result object, with success false after such a failure.
C20_CommandDisconnects ==
    (pc = "returned" /\ conn # None) =>
        /\ open = 0
        /\ result # <<>>
        /\ (unlockCalls = <<"error">> \/ sync.run = "unlisted") => ~result[1].success

\* the identifiers of the current allowed and denied lists that are
\* enrolled on the terminal
C21_Enrolled ==
    {w.user_id : w \in Range(GroupWork(allowed_users', denied_users'))}
        \cap DOMAIN device_users'

\* C21: device_configured true means the groups were pushed for the current
\* classification.  The flag becomes true only in a step whose run could
\* enumerate the device users and attempted an assignment for every
\* identifier of the allowed and denied lists enrolled on the terminal; a
\* step that loads another classification leaves the flag false; the set
\* of enrolled identifiers does not change meanwhile.
C21_ConfiguredMeansSynced ==
    /\ [][(~device_configured /\ device_configured') =>
            /\ sync'.run = "complete"
            /\ \A u \in C21_Enrolled :
                  \E i \in DOMAIN sync'.calls : sync'.calls[i].user_id = u]_vars
    /\ [][(classification' # classification) => ~device_configured']_vars
    /\ [][DOMAIN device_users' = DOMAIN device_users]_vars

====
